---- MODULE Spec2Model ----
(***************************************************************************)
(* simply-lingo: the vocabulary pipeline of main.go.                       *)
(*                                                                         *)
(* A run reads the rows of the first sheet of a spreadsheet and, for each  *)
(* row with at least two cells, looks the word up in the dictionary        *)
(* service, reuses or synthesizes the clip audio/<word>.mp3, and hands one *)
(* row to the CSV writer.  The environment (file system, the two HTTP      *)
(* services, the CSV sink) answers each call nondeterministically.         *)
(*                                                                         *)
(* Every run has its own input, output and position; the audio store is    *)
(* the one object runs share.                                              *)
(*                                                                         *)
(* unnamed/part_000 holds two earlier revisions of the same main: the      *)
(* first runs the same loop, writes a header row and keeps no counters;    *)
(* the second has no audio stage.  The model follows main.go.              *)
(***************************************************************************)
EXTENDS Naturals, Sequences, FiniteSets, TLC

VARIABLES
    active,          \* the runs of the program that exist
    sheet,           \* sheet[r]: xlFile.Sheets[0].Rows, each row its cells
    store,           \* the files of the audio directory: path -> content
    store0,          \* the audio directory as it was before the runs (history)
    pc,              \* pc[r]: the statement run r executes next
    idx,             \* idx[r]: rows of the sheet the range loop has taken
    resp,            \* resp[r]: the dictionary response of this iteration
    russian,         \* russian[r]
    stat,            \* stat[r]: what os.Stat(audioPath) answered, this iteration
    totalWords,      \* totalWords[r]
    processedWords,  \* processedWords[r]
    rows,            \* rows[r]: the records handed to csvWriter.Write, in order
    sinkBroken,      \* sinkBroken[r]: the buffered writer holds a write error
    startup,         \* startup[r]: the startup condition that failed, if any
    log              \* log[r][i]: what happened to row i (history)

vars == <<active, sheet, store, store0, pc, idx, resp, russian, stat, totalWords,
          processedWords, rows, sinkBroken, startup, log>>

-----------------------------------------------------------------------------
(* Bounds of the model *)

\* longest sheet a run reads
MaxRows == 2

-----------------------------------------------------------------------------
(* Program constants *)

\* http.StatusOK
StatusOK == 200

audioDir == "audio"

-----------------------------------------------------------------------------
(* Inputs *)

Words == {"hello", "cat"}

\* The rows a sheet is made of: one with a single cell, two entries.
SheetRows == { <<"hello">>, <<"hello", "a greeting">>, <<"cat", "an animal">> }

\* Sequences over S of length at most n
RECURSIVE SeqsUpTo(_, _)
SeqsUpTo(S, n) ==
    IF n = 0 THEN { <<>> }
    ELSE LET shorter == SeqsUpTo(S, n - 1)
         IN  shorter \cup { Append(s, x) : s \in { t \in shorter : Len(t) = n - 1 }, x \in S }

\* A sheet of three entries, the middle one of another word
LongSheet ==
    << <<"hello", "a greeting">>, <<"cat", "an animal">>, <<"hello", "a greeting">> >>

Sheets == SeqsUpTo(SheetRows, MaxRows) \cup {LongSheet}

\* Content of a file of the audio store: a complete clip, or a file cut
\* short of one (zero bytes included).  No statement reads a clip.
Absent == "absent"
Contents == {"truncated", "full"}

\* HTTP statuses a service answers with
Statuses == {StatusOK, 403}

-----------------------------------------------------------------------------
(* Path mapping: main.go:178-179, 253 *)

\* audioFilename := fmt.Sprintf("%s.mp3", word)
audioFilename(word) == word \o ".mp3"

\* audioPath naming one file for every word
audioPathOneFile(word) == audioDir \o "/" \o "clip.mp3"

\* audioPath := filepath.Join(audioDir, audioFilename)
audioPath(word) == audioDir \o "/" \o audioFilename(word)

\* soundField := fmt.Sprintf("[sound:%s]", audioFilename)
soundField(word) == "[sound:" \o audioFilename(word) \o "]"

Paths == { audioPath(w) : w \in Words }

-----------------------------------------------------------------------------
(* The dictionary response: main.go:18-49, 150-175 *)

\* Response bodies: text that is no JSON document of the DicResult shape
\* (valid = FALSE), and documents with their "def" array.  An error object
\* such as {"code":403,"message":"..."} is a document without "def".
Bodies ==
    { [valid |-> FALSE, def |-> <<>>],
      [valid |-> TRUE,  def |-> <<>>],
      [valid |-> TRUE,  def |-> << [tr |-> <<>>] >>],
      [valid |-> TRUE,  def |-> << [tr |-> << [text |-> "privet"], [text |-> "zdravstvuj"] >>],
                                   [tr |-> << [text |-> "allo"] >>] >>] }

NoBody == [valid |-> FALSE, def |-> <<>>]

\* What http.Get and io.ReadAll can answer: a transport error, a response
\* whose body cannot be read, or a status with a body.
TrResponses ==
    { [err |-> "transport", status |-> 0, body |-> NoBody] }
    \cup { [err |-> "read", status |-> s, body |-> NoBody] : s \in {StatusOK} }
    \cup { [err |-> "none", status |-> s, body |-> b] : s \in Statuses, b \in Bodies }

NoResp == [err |-> "unset", status |-> 0, body |-> NoBody]

\* json.Unmarshal(body, &result): an error for a body that does not parse,
\* else the DicResult whose Def is the document's "def" (empty when absent).
Unmarshal(body) ==
    IF body.valid THEN [err |-> FALSE, Def |-> body.def]
                  ELSE [err |-> TRUE,  Def |-> <<>>]

\* TranslationErr taking a response without definitions for an error
TranslationErrOnEmpty(rsp) ==
    \/ rsp.err = "transport"
    \/ rsp.err = "read"
    \/ Unmarshal(rsp.body).err
    \/ Len(Unmarshal(rsp.body).Def) = 0

\* main.go:151, 158, 165: the three error returns of the translation stage
TranslationErr(rsp) ==
    \/ rsp.err = "transport"
    \/ rsp.err = "read"
    \/ Unmarshal(rsp.body).err

\* FirstTranslation reading the last definition in place of the first
TranslationOfLastDefinition(result) ==
    IF Len(result.Def) > 0 /\ Len(result.Def[Len(result.Def)].tr) > 0
    THEN result.Def[Len(result.Def)].tr[1].text
    ELSE ""

\* main.go:172-175: the first translation of the first definition, or ""
FirstTranslation(result) ==
    IF Len(result.Def) > 0 /\ Len(result.Def[1].tr) > 0
    THEN result.Def[1].tr[1].text
    ELSE ""

-----------------------------------------------------------------------------
(* The audio store as os.Stat sees it: main.go:182 *)

\* The errors os.Stat can return for a path with this content: nil for a
\* file that is there, ENOENT for one that is not, and in either case an
\* error of another kind (EACCES on the directory, ENAMETOOLONG, EIO).
StatErrs(content) ==
    IF content = Absent THEN {"ENOENT", "other"} ELSE {"nil", "other"}

\* IsNotExist answering for every path but a missing one
IsNotExistNegated(err) == err # "ENOENT"

\* os.IsNotExist(err)
IsNotExist(err) == err = "ENOENT"

\* AfterStat testing err != nil in place of os.IsNotExist(err)
AfterStatAnyErr(err) == IF err # "nil" THEN "synth" ELSE "emit"

\* main.go:182, 247: the branch taken after the existence check
AfterStat(err) == IF IsNotExist(err) THEN "synth" ELSE "emit"

-----------------------------------------------------------------------------
(* The history kept of each row of the sheet *)

NewEntry ==
    [ tr       |-> 0,            \* dictionary requests sent for the row
      tts      |-> 0,            \* synthesis requests sent for the row
      trStatus |-> 0,            \* status the dictionary answered, 0 if none
      trErr    |-> "none",       \* error of http.Get / ReadAll / Unmarshal
      hit      |-> "unchecked",  \* was the clip in the store when checked
      ttsErr   |-> "none",       \* the step of the synthesis that failed
      out      |-> "pending" ]   \* how the iteration ended

\* the word and the definition of row i of run r (main.go:138-139)
word(r, i) == sheet[r][i][1]
definition(r, i) == sheet[r][i][2]

\* CountWords taking a row for an entry only from three cells on
CountWordsThreeCells(rs) == Cardinality({ i \in 1..Len(rs) : Len(rs[i]) >= 3 })

\* main.go:83-88
CountWords(rs) == Cardinality({ i \in 1..Len(rs) : Len(rs[i]) >= 2 })

-----------------------------------------------------------------------------
(* Init: a run before main has executed anything *)

\* the runs R, each over a sheet of S
InitOver(R, S) ==
    /\ active = R
    /\ sheet \in [R -> S]
    /\ store \in [Paths -> {Absent} \cup Contents]
    /\ store0 = store
    /\ pc = [r \in R |-> "args"]
    /\ idx = [r \in R |-> 0]
    /\ resp = [r \in R |-> NoResp]
    /\ russian = [r \in R |-> ""]
    /\ stat = [r \in R |-> "unset"]
    /\ totalWords = [r \in R |-> 0]
    /\ processedWords = [r \in R |-> 0]
    /\ rows = [r \in R |-> <<>>]
    /\ sinkBroken = [r \in R |-> FALSE]
    /\ startup = [r \in R |-> "none"]
    /\ log = [r \in R |-> [i \in 1..Len(sheet[r]) |-> NewEntry]]

InitRuns(R) == InitOver(R, Sheets)

Init == InitRuns({"A"})

-----------------------------------------------------------------------------
(* Startup: main.go:65-121 *)

\* log.Fatal / log.Fatalf: the process exits; nothing of the run follows
Fatal(r) == pc' = [pc EXCEPT ![r] = "fatal"]

\* the startup condition the environment presents to run r is put on record
Met(r, condition) == startup' = [startup EXCEPT ![r] = condition]

\* main.go:65-69
ParseArgs(r) ==
    /\ pc[r] = "args"
    /\ \E nargs \in {1, 2} :
          pc' = [pc EXCEPT ![r] = IF nargs < 2 THEN "usage" ELSE "open"]
    /\ UNCHANGED <<active, sheet, store0, store, idx, resp, russian, stat, totalWords,
                   processedWords, rows, sinkBroken, startup, log>>

\* main.go:71-88: open the workbook, take the first sheet, count the words
OpenFile(r) ==
    /\ pc[r] = "open"
    /\ \E res \in {"err", "nosheets", "ok"} :
          IF res = "ok"
          THEN /\ totalWords' = [totalWords EXCEPT ![r] = CountWords(sheet[r])]
               /\ pc' = [pc EXCEPT ![r] = "create"]
               /\ UNCHANGED startup
          ELSE /\ Fatal(r)
               /\ Met(r, "input")
               /\ UNCHANGED totalWords
    /\ UNCHANGED <<active, sheet, store0, store, idx, resp, russian, stat,
                   processedWords, rows, sinkBroken, log>>

\* main.go:90-99
CreateOutput(r) ==
    /\ pc[r] = "create"
    /\ \E ok \in BOOLEAN :
          IF ok THEN pc' = [pc EXCEPT ![r] = "yandexKey"] /\ UNCHANGED startup
                ELSE Fatal(r) /\ Met(r, "sink")
    /\ UNCHANGED <<active, sheet, store0, store, idx, resp, russian, stat, totalWords,
                   processedWords, rows, sinkBroken, log>>

\* KeyMissing accepting an empty credential
KeyNeverMissing(key) == FALSE

\* main.go:106, 112: the test of a credential read from the environment
KeyMissing(key) == key = ""

\* main.go:101-109
LoadYandexKey(r) ==
    /\ pc[r] = "yandexKey"
    /\ \E yandexAPIKey \in {"", "key"} :
          /\ IF yandexAPIKey = "" THEN Met(r, "yandexKey") ELSE UNCHANGED startup
          /\ IF KeyMissing(yandexAPIKey)
             THEN Fatal(r)
             ELSE pc' = [pc EXCEPT ![r] = "elevenKey"]
    /\ UNCHANGED <<active, sheet, store0, store, idx, resp, russian, stat, totalWords,
                   processedWords, rows, sinkBroken, log>>

\* main.go:111-115
LoadElevenLabsKey(r) ==
    /\ pc[r] = "elevenKey"
    /\ \E elevenLabsAPIKey \in {"", "key"} :
          /\ IF elevenLabsAPIKey = "" THEN Met(r, "elevenKey") ELSE UNCHANGED startup
          /\ IF KeyMissing(elevenLabsAPIKey)
             THEN Fatal(r)
             ELSE pc' = [pc EXCEPT ![r] = "mkdir"]
    /\ UNCHANGED <<active, sheet, store0, store, idx, resp, russian, stat, totalWords,
                   processedWords, rows, sinkBroken, log>>

\* main.go:117-121
MkdirAudio(r) ==
    /\ pc[r] = "mkdir"
    /\ \E ok \in BOOLEAN :
          IF ok THEN pc' = [pc EXCEPT ![r] = "loop"] /\ UNCHANGED startup
                ELSE Fatal(r) /\ Met(r, "audioDir")
    /\ UNCHANGED <<active, sheet, store0, store, idx, resp, russian, stat, totalWords,
                   processedWords, rows, sinkBroken, log>>

-----------------------------------------------------------------------------
(* The loop over the rows: main.go:131-265 *)

\* EndIteration repeating the failed statement in place of `continue`
EndIterationAgain(r, entry) ==
    /\ log' = [log EXCEPT ![r][idx[r]] = entry]
    /\ UNCHANGED pc

\* main.go:154, 161, 168, 218, 226, 234, 242, 265: an iteration ends, by
\* `continue` or at the end of the body; the loop resumes
EndIteration(r, entry) ==
    /\ log' = [log EXCEPT ![r][idx[r]] = entry]
    /\ pc' = [pc EXCEPT ![r] = "loop"]

\* main.go:131-135, 267: the range loop takes the next row, passes over a
\* row with fewer than two cells, and ends the run after the last row
LoopHead(r) ==
    /\ pc[r] = "loop"
    /\ resp' = [resp EXCEPT ![r] = NoResp]
    /\ russian' = [russian EXCEPT ![r] = ""]
    /\ stat' = [stat EXCEPT ![r] = "unset"]
    /\ IF idx[r] = Len(sheet[r])
       THEN /\ pc' = [pc EXCEPT ![r] = "done"]
            /\ UNCHANGED <<idx, log>>
       ELSE /\ idx' = [idx EXCEPT ![r] = idx[r] + 1]
            /\ IF Len(sheet[r][idx[r] + 1]) < 2
               THEN /\ log' = [log EXCEPT ![r][idx[r] + 1].out = "short"]
                    /\ UNCHANGED pc
               ELSE /\ pc' = [pc EXCEPT ![r] = "translate"]
                    /\ UNCHANGED log
    /\ UNCHANGED <<active, sheet, store0, store, totalWords, processedWords, rows,
                   sinkBroken, startup>>

\* main.go:149-175: http.Get, io.ReadAll, json.Unmarshal, first translation.
\* The status of the response is not examined.
Translate(r) ==
    /\ pc[r] = "translate"
    /\ \E rsp \in TrResponses :
          LET result == Unmarshal(rsp.body)
              sent == [log[r][idx[r]] EXCEPT !.tr = @ + 1, !.trStatus = rsp.status]
          IN  /\ resp' = [resp EXCEPT ![r] = rsp]
              /\ IF TranslationErr(rsp)
                 THEN /\ EndIteration(r, [sent EXCEPT
                             !.trErr = IF rsp.err = "none" THEN "malformed" ELSE rsp.err,
                             !.out = "TranslationFailed"])
                      /\ UNCHANGED russian
                 ELSE /\ russian' = [russian EXCEPT ![r] = FirstTranslation(result)]
                      /\ log' = [log EXCEPT ![r][idx[r]] = sent]
                      /\ pc' = [pc EXCEPT ![r] = "stat"]
    /\ UNCHANGED <<active, sheet, store0, store, idx, stat, totalWords, processedWords,
                   rows, sinkBroken, startup>>

\* main.go:178-182, 247-250: the existence check of the clip
CheckCache(r) ==
    /\ pc[r] = "stat"
    /\ LET path == audioPath(word(r, idx[r]))
       IN  \E err \in StatErrs(store[path]) :
              /\ stat' = [stat EXCEPT ![r] = err]
              /\ log' = [log EXCEPT ![r][idx[r]].hit =
                            IF store[path] = Absent THEN "absent" ELSE "present"]
              /\ pc' = [pc EXCEPT ![r] = AfterStat(err)]
    /\ UNCHANGED <<active, sheet, store0, store, idx, resp, russian, totalWords,
                   processedWords, rows, sinkBroken, startup>>

\* main.go:222: the test of the synthesis response
SynthesisRejected(status) == status # StatusOK

\* main.go:184-227: the synthesis request is built and sent.  json.Marshal
\* of the request struct and http.NewRequest with a constant method and URL
\* do not fail, so the request is always sent.
Synthesize(r) ==
    /\ pc[r] = "synth"
    /\ \E answer \in {0} \cup Statuses :
          LET sent == [log[r][idx[r]] EXCEPT !.tts = @ + 1]
          IN  IF answer = 0
              THEN EndIteration(r, [sent EXCEPT !.ttsErr = "transport",
                                                !.out = "SynthesisFailed"])
              ELSE IF SynthesisRejected(answer)
              THEN EndIteration(r, [sent EXCEPT !.ttsErr = "status",
                                                !.out = "SynthesisFailed"])
              ELSE /\ log' = [log EXCEPT ![r][idx[r]] = sent]
                   /\ pc' = [pc EXCEPT ![r] = "createAudio"]
    /\ UNCHANGED <<active, sheet, store0, store, idx, resp, russian, stat, totalWords,
                   processedWords, rows, sinkBroken, startup>>

\* clipPath given the file name without the directory
clipPathNoDir(w) == audioFilename(w)

\* main.go:230, 237: the path of the file os.Create opens and io.Copy fills
clipPath(w) == audioPath(w)

\* main.go:230-235: os.Create(audioPath) creates the file or truncates it
CreateAudio(r) ==
    /\ pc[r] = "createAudio"
    /\ \E ok \in BOOLEAN :
          IF ok
          THEN /\ store' = [store EXCEPT ![clipPath(word(r, idx[r]))] = "truncated"]
               /\ pc' = [pc EXCEPT ![r] = "copy"]
               /\ UNCHANGED log
          ELSE /\ EndIteration(r, [log[r][idx[r]] EXCEPT !.ttsErr = "create",
                                                         !.out = "SynthesisFailed"])
               /\ UNCHANGED store
    /\ UNCHANGED <<active, sheet, store0, idx, resp, russian, stat, totalWords,
                   processedWords, rows, sinkBroken, startup>>

\* main.go:237-243: what a failed io.Copy leaves at the path: the file with
\* the bytes written so far; it is closed and not removed
AfterCopyErr(content) == "truncated"

\* main.go:237-246: io.Copy(audioFile, resp.Body), audioFile.Close()
CopyAudio(r) ==
    /\ pc[r] = "copy"
    /\ LET path == clipPath(word(r, idx[r]))
       IN  \/ /\ store' = [store EXCEPT ![path] = "full"]
              /\ pc' = [pc EXCEPT ![r] = "emit"]
              /\ UNCHANGED log
           \/ /\ store' = [store EXCEPT ![path] = AfterCopyErr(store[path])]
              /\ EndIteration(r, [log[r][idx[r]] EXCEPT !.ttsErr = "copy",
                                                        !.out = "SynthesisFailed"])
    /\ UNCHANGED <<active, sheet, store0, idx, resp, russian, stat, totalWords,
                   processedWords, rows, sinkBroken, startup>>

\* main.go:146, 253, 257: the record handed to the CSV writer
OutputRow(r, i) ==
    << word(r, i), definition(r, i), soundField(word(r, i)), russian[r] >>

\* WriteRecord putting the record before those written before
WriteRecordFirst(written, record) == <<record>> \o written

\* main.go:257: csvWriter.Write puts the record after those written before
WriteRecord(written, record) == Append(written, record)

\* main.go:252-264: the row is handed to csvWriter.Write; an error of the
\* writer is logged and the counter is incremented either way.  The buffered
\* writer keeps an error once it has one.
EmitRow(r) ==
    /\ pc[r] = "emit"
    /\ \E err \in (IF sinkBroken[r] THEN {TRUE} ELSE BOOLEAN) :
          /\ rows' = [rows EXCEPT ![r] =
                        WriteRecord(@, [i |-> idx[r], cells |-> OutputRow(r, idx[r]), err |-> err])]
          /\ sinkBroken' = [sinkBroken EXCEPT ![r] = err]
    /\ processedWords' = [processedWords EXCEPT ![r] = @ + 1]
    /\ EndIteration(r, [log[r][idx[r]] EXCEPT !.out = "Emitted"])
    /\ UNCHANGED <<active, sheet, store0, store, idx, resp, russian, stat, totalWords,
                   startup>>

-----------------------------------------------------------------------------

Next ==
    \/ \E r \in active : ParseArgs(r)
    \/ \E r \in active : OpenFile(r)
    \/ \E r \in active : CreateOutput(r)
    \/ \E r \in active : LoadYandexKey(r)
    \/ \E r \in active : LoadElevenLabsKey(r)
    \/ \E r \in active : MkdirAudio(r)
    \/ \E r \in active : LoopHead(r)
    \/ \E r \in active : Translate(r)
    \/ \E r \in active : CheckCache(r)
    \/ \E r \in active : Synthesize(r)
    \/ \E r \in active : CreateAudio(r)
    \/ \E r \in active : CopyAudio(r)
    \/ \E r \in active : EmitRow(r)

Spec == Init /\ [][Next]_vars

-----------------------------------------------------------------------------
(* Vocabulary of the properties *)

\* the rows of the sheet that are entries: a word and a gloss
Entries(r) == { i \in 1..Len(sheet[r]) : Len(sheet[r][i]) >= 2 }

\* the positions of the output that hold a row of entry i
RowsOf(r, i) == { k \in 1..Len(rows[r]) : rows[r][k].i = i }

\* the iteration of entry i has ended
Ended(r, i) == i < idx[r] \/ (i = idx[r] /\ pc[r] \in {"loop", "done"})

\* the iteration of entry i has just ended: the loop has not moved on
JustEnded(r, i) == i = idx[r] /\ pc[r] = "loop"

\* The translation stage failed for entry i, as the dictionary client is
\* specified: no response, a status other than success, or a body that
\* cannot be read or parsed.
TranslationFailed(r, i) ==
    /\ log[r][i].tr > 0
    /\ \/ log[r][i].trErr # "none"
       \/ log[r][i].trStatus # StatusOK

\* The synthesis stage failed for entry i: the request, its status, or the
\* writing of the clip.
SynthesisFailed(r, i) == log[r][i].ttsErr # "none"

\* the response parsed, and holds no definition or a first one without
\* translations
EmptyTranslation(rsp) ==
    /\ rsp.err = "none"
    /\ rsp.body.valid
    /\ \/ Len(rsp.body.def) = 0
       \/ Len(rsp.body.def[1].tr) = 0

-----------------------------------------------------------------------------
(* C1 *)

\* C1: an entry whose clip was in the store when the cache was checked
\* causes no synthesis request, whatever the clip holds, and the step after
\* the check is the emission of its row.
C1_CachedClipIsReused ==
    \A r \in active : \A i \in Entries(r) :
        log[r][i].hit = "present" =>
            /\ log[r][i].tts = 0
            /\ log[r][i].ttsErr = "none"
            /\ IF Ended(r, i)
               THEN log[r][i].out = "Emitted" /\ Cardinality(RowsOf(r, i)) = 1
               ELSE pc[r] = "emit"

\* a truncated clip was found, nothing was requested and the row is out
C1_Witness ==
    \E r \in active : \E i \in Entries(r) :
        /\ log[r][i].hit = "present"
        /\ store[audioPath(word(r, i))] = "truncated"
        /\ JustEnded(r, i)
        /\ RowsOf(r, i) # {}
        /\ log[r][i].tts = 0

-----------------------------------------------------------------------------
(* C2 *)

\* C2: an entry for which the translation or the synthesis stage failed has
\* no row in the output, every entry without a failure has its row once its
\* iteration has ended, and a run that ends has taken every row.
C2_FailureDropsOneRow ==
    \A r \in active :
        /\ \A i \in Entries(r) :
              /\ (TranslationFailed(r, i) \/ SynthesisFailed(r, i)) => RowsOf(r, i) = {}
              /\ (Ended(r, i) /\ ~TranslationFailed(r, i) /\ ~SynthesisFailed(r, i))
                    => Cardinality(RowsOf(r, i)) = 1
        /\ pc[r] = "done" => idx[r] = Len(sheet[r])

\* The same with the failures the code tests for: an error of http.Get,
\* io.ReadAll or json.Unmarshal, and every failure of the synthesis.
DetectedFailureDropsOneRow ==
    \A r \in active :
        /\ \A i \in Entries(r) :
              /\ (log[r][i].trErr # "none" \/ SynthesisFailed(r, i)) => RowsOf(r, i) = {}
              /\ (Ended(r, i) /\ log[r][i].trErr = "none" /\ ~SynthesisFailed(r, i))
                    => Cardinality(RowsOf(r, i)) = 1
        /\ pc[r] = "done" => idx[r] = Len(sheet[r])

-----------------------------------------------------------------------------
(* C3 *)

\* C3: when a row has just been written, the clip its sound field names is
\* in the audio store.
C3_RowNamesExistingClip ==
    \A r \in active : \A i \in Entries(r) :
        (JustEnded(r, i) /\ log[r][i].out = "Emitted")
            => store[audioPath(word(r, i))] # Absent

-----------------------------------------------------------------------------
(* C4 *)

\* C4: a lookup that met a transport failure, a non-success status or a
\* malformed body ends as TranslationFailed, with no row for the word.
C4_LookupFailureSkipsWord ==
    \A r \in active : \A i \in Entries(r) :
        TranslationFailed(r, i) =>
            /\ log[r][i].out = "TranslationFailed"
            /\ RowsOf(r, i) = {}

-----------------------------------------------------------------------------
(* C5 *)

\* C5: when the synthesis of an entry has just failed, no file is at the
\* path of its clip.
C5_FailedSynthesisLeavesNoClip ==
    \A r \in active : \A i \in Entries(r) :
        (JustEnded(r, i) /\ log[r][i].out = "SynthesisFailed")
            => store[audioPath(word(r, i))] = Absent

-----------------------------------------------------------------------------
(* C6 *)

\* entry i went through both stages with no error returned
Cleared(r, i) ==
    /\ Ended(r, i)
    /\ log[r][i].tr = 1
    /\ log[r][i].trErr = "none"
    /\ log[r][i].hit # "unchecked"
    /\ log[r][i].ttsErr = "none"

-----------------------------------------------------------------------------
(* C7 *)

\* C7: a response that parses and holds no translation does not end the
\* iteration: the translation is "", the audio stage runs, and unless that
\* stage fails the row is written with an empty translation.
C7_EmptyTranslationIsNoSkip ==
    \A r \in active :
        (idx[r] > 0 /\ EmptyTranslation(resp[r])) =>
            /\ russian[r] = ""
            /\ log[r][idx[r]].out # "TranslationFailed"
            /\ log[r][idx[r]].hit = "unchecked" => pc[r] = "stat"
            /\ (JustEnded(r, idx[r]) /\ ~SynthesisFailed(r, idx[r])) =>
                  /\ log[r][idx[r]].out = "Emitted"
                  /\ rows[r] # <<>>
                  /\ rows[r][Len(rows[r])].i = idx[r]
                  /\ rows[r][Len(rows[r])].cells[4] = ""

\* no definition came back, the clip was synthesized, the row is out
C7_Witness ==
    \E r \in active :
        /\ idx[r] > 0
        /\ EmptyTranslation(resp[r])
        /\ resp[r].body.def = <<>>
        /\ JustEnded(r, idx[r])
        /\ log[r][idx[r]].tts = 1
        /\ rows[r] # <<>>
        /\ rows[r][Len(rows[r])].i = idx[r]
        /\ rows[r][Len(rows[r])].cells[4] = ""

-----------------------------------------------------------------------------
(* C8 *)

\* C8: a run that met a fatal startup condition (input, sink, either key,
\* audio directory) has taken no row, sent no request and written no row.
C8_FatalStartupProcessesNothing ==
    \A r \in active :
        startup[r] # "none" =>
            /\ idx[r] = 0
            /\ rows[r] = <<>>
            /\ \A i \in 1..Len(sheet[r]) : log[r][i].tr = 0 /\ log[r][i].tts = 0
            /\ pc[r] = "fatal"

\* the synthesis key is missing from a run with an entry to process
C8_Witness ==
    \E r \in active :
        /\ startup[r] = "elevenKey"
        /\ pc[r] = "fatal"
        /\ Entries(r) # {}

-----------------------------------------------------------------------------
(* C9 *)

\* C9: the cache check and the synthesis of an entry come after its one
\* lookup, and an entry whose lookup failed has neither.
C9_TranslationBeforeAudio ==
    \A r \in active : \A i \in Entries(r) :
        /\ (log[r][i].hit # "unchecked" \/ log[r][i].tts > 0) =>
              /\ log[r][i].tr = 1
              /\ resp[r] # NoResp \/ Ended(r, i)
        /\ TranslationFailed(r, i) =>
              /\ log[r][i].hit = "unchecked"
              /\ log[r][i].tts = 0

\* The same with the failures the code tests for.
DetectedFailureStopsTheEntry ==
    \A r \in active : \A i \in Entries(r) :
        /\ (log[r][i].hit # "unchecked" \/ log[r][i].tts > 0) => log[r][i].tr = 1
        /\ log[r][i].trErr # "none" =>
              /\ log[r][i].hit = "unchecked"
              /\ log[r][i].tts = 0

-----------------------------------------------------------------------------
(* C10 *)

\* C10: no entry causes more than one dictionary request or more than one
\* synthesis request, and a row that is no entry causes none.
C10_NoRetry ==
    \A r \in active : \A i \in 1..Len(sheet[r]) :
        /\ log[r][i].tr <= 1
        /\ log[r][i].tts <= 1
        /\ i \notin Entries(r) => log[r][i].tr = 0 /\ log[r][i].tts = 0

\* both requests of an entry failed in turn on two entries and the run ended
C10_Witness ==
    \E r \in active : \E i, j \in Entries(r) :
        /\ pc[r] = "done"
        /\ log[r][i].tr = 1 /\ log[r][i].out = "TranslationFailed"
        /\ log[r][j].tts = 1 /\ log[r][j].out = "SynthesisFailed"

-----------------------------------------------------------------------------
(* C11 *)

\* the translation the row of an entry carries for this response
ExpectedTranslation(rsp) ==
    IF Len(rsp.body.def) > 0 /\ Len(rsp.body.def[1].tr) > 0
    THEN rsp.body.def[1].tr[1].text
    ELSE ""

\* the row of an entry, from its two cells and the response to its lookup
ExpectedRow(entry, rsp) ==
    << entry[1], entry[2], "[sound:" \o entry[1] \o ".mp3]", ExpectedTranslation(rsp) >>

\* The fate of entry i as a function of what the run started from and of
\* what entry i itself was answered: the clip of its word in the store the
\* run started from, the response to its lookup, a failure of its os.Stat,
\* and the answer to its synthesis.  Nothing about another entry occurs in
\* it.  Two runs that agree on these agree on entry i exactly when every
\* run gives entry i the fate this function names.
OwnFate(r, i) ==
    LET parsed   == resp[r].err = "none" /\ resp[r].body.valid
        clip     == store0[audioPath(word(r, i))] # Absent
        statFail == stat[r] = "other"
        asked    == parsed /\ ~clip /\ ~statFail
        emits    == parsed /\ (clip \/ statFail \/ log[r][i].ttsErr = "none")
    IN  [ tts |-> IF asked THEN 1 ELSE 0,
          row |-> IF emits THEN << ExpectedRow(sheet[r][i], resp[r]) >> ELSE <<>> ]

\* what entry i did: its synthesis requests and the row it wrote, if any
ActualFate(r, i) ==
    [ tts |-> log[r][i].tts,
      row |-> IF log[r][i].out = "Emitted" /\ rows[r] # <<>>
                   /\ rows[r][Len(rows[r])].i = i
              THEN << rows[r][Len(rows[r])].cells >>
              ELSE <<>> ]

\* no entry before entry i carries the word of entry i
FirstOfItsWord(r, i) ==
    \A j \in Entries(r) : j < i => word(r, j) # word(r, i)

-----------------------------------------------------------------------------
(* C12 *)

\* the synthesis of entry i went through: request, status, create, copy
Synthesized(r, i) == log[r][i].tts = 1 /\ log[r][i].ttsErr = "none"

\* C12: once the synthesis of an entry has written its clip, the file is at
\* the path the cache check of that word inspects: the check found the path
\* empty before, finds the clip now, and whatever os.Stat answers for it
\* the check takes the branch of a clip that exists.
C12_CheckFindsSynthesizedClip ==
    \A r \in active : \A i \in Entries(r) :
        (i = idx[r] /\ pc[r] \in {"emit", "loop"} /\ Synthesized(r, i)) =>
            /\ log[r][i].hit = "absent"
            /\ store[audioPath(word(r, i))] = "full"
            /\ \A err \in StatErrs(store[audioPath(word(r, i))]) : AfterStat(err) = "emit"

\* a clip was just synthesized for a word that had none
C12_Witness ==
    \E r \in active : \E i \in Entries(r) :
        /\ i = idx[r]
        /\ pc[r] = "emit"
        /\ Synthesized(r, i)
        /\ store0[audioPath(word(r, i))] = Absent
        /\ store[audioPath(word(r, i))] = "full"

-----------------------------------------------------------------------------
(* C13 *)

\* C13: every row holds four cells, the word and the gloss of its entry
\* unchanged and the sound tag of the word; the row just written holds the
\* first translation of the first definition of the response to its lookup,
\* or "" when there is none.
C13_RowContent ==
    \A r \in active :
        /\ \A k \in 1..Len(rows[r]) :
              LET entry == sheet[r][rows[r][k].i]
                  cells == rows[r][k].cells
              IN  /\ Len(cells) = 4
                  /\ cells[1] = entry[1]
                  /\ cells[2] = entry[2]
                  /\ cells[3] = "[sound:" \o entry[1] \o ".mp3]"
        /\ (idx[r] > 0 /\ pc[r] = "loop" /\ log[r][idx[r]].out = "Emitted") =>
              rows[r][Len(rows[r])].cells = ExpectedRow(sheet[r][idx[r]], resp[r])

\* the scenario of the specification: ("hello", "a greeting"), one
\* definition translated "privet", no clip cached, synthesis succeeds
C13_Witness ==
    \E r \in active :
        /\ sheet[r] = << <<"hello", "a greeting">> >>
        /\ pc[r] = "done"
        /\ store0["audio/hello.mp3"] = Absent
        /\ store["audio/hello.mp3"] = "full"
        /\ Synthesized(r, 1)
        /\ Len(rows[r]) = 1
        /\ rows[r][1].cells = <<"hello", "a greeting", "[sound:hello.mp3]", "privet">>

-----------------------------------------------------------------------------
(* C14 *)

\* A run whose every call returns takes its next step: the program is
\* sequential and nothing but an external call can hold it.
FairSpec == Spec /\ WF_vars(Next)

\* run r has ended: after the loop, at a fatal startup condition, or at the
\* usage message
Stopped(r) == pc[r] \in {"done", "fatal", "usage"}

Skipped(r) ==
    { i \in Entries(r) : log[r][i].out \in {"TranslationFailed", "SynthesisFailed"} }

\* at the end of the loop every entry is in one of the three terminal
\* states, the emitted ones are those with a row, and the rows and the
\* skipped entries add up to the entries
Accounted(r) ==
    /\ \A i \in Entries(r) :
          /\ log[r][i].out \in {"Emitted", "TranslationFailed", "SynthesisFailed"}
          /\ Cardinality(RowsOf(r, i)) = IF log[r][i].out = "Emitted" THEN 1 ELSE 0
    /\ Len(rows[r]) + Cardinality(Skipped(r)) = Cardinality(Entries(r))

\* the statements of one iteration, counted back from its last
Rank(label) ==
    CASE label = "translate"   -> 7
      [] label = "stat"        -> 6
      [] label = "synth"       -> 5
      [] label = "createAudio" -> 4
      [] label = "copy"        -> 3
      [] label = "emit"        -> 2
      [] label = "loop"        -> 1
      [] OTHER                 -> 0

\* the statements of the startup, counted back from the last
StartupRank(label) ==
    CASE label = "args"      -> 6
      [] label = "open"      -> 5
      [] label = "create"    -> 4
      [] label = "yandexKey" -> 3
      [] label = "elevenKey" -> 2
      [] label = "mkdir"     -> 1
      [] OTHER               -> 0

\* an upper bound of the steps run r still takes
StepsLeft(r) ==
    IF Stopped(r) THEN 0
    ELSE IF StartupRank(pc[r]) > 0 THEN 7 * Len(sheet[r]) + 1 + StartupRank(pc[r])
    ELSE 7 * (Len(sheet[r]) - idx[r]) + Rank(pc[r])

\* C14: a run that has not ended can take a step, every step of a run
\* brings it nearer its end, so a run whose calls all return ends; and a
\* run that ends after the loop has accounted for every entry.
C14_BatchTerminates ==
    /\ [](\A r \in active : Stopped(r) \/ ENABLED Next)
    /\ [][\E r \in active :
             /\ StepsLeft(r)' < StepsLeft(r)
             /\ \A q \in active \ {r} : StepsLeft(q)' = StepsLeft(q)]_vars
    /\ [](\A r \in active : pc[r] = "done" => Accounted(r))

\* The end itself, under the fairness of FairSpec.
RunEnds == <>(\A r \in active : Stopped(r))

\* a run ended with one entry emitted and one skipped at the audio stage
C14_Witness ==
    \E r \in active :
        /\ pc[r] = "done"
        /\ \E i, j \in Entries(r) :
              /\ log[r][i].out = "Emitted"
              /\ log[r][j].out = "SynthesisFailed"

-----------------------------------------------------------------------------
(* C15 *)

\* Two invocations of the program at once, over the same audio directory
\* (main.go:117 always names ./audio).  Each is given a sheet of one row.
OneRowSheets == { <<row>> : row \in SheetRows }

InitConcurrent == InitOver({"A", "B"}, OneRowSheets)

SpecConcurrent == InitConcurrent /\ [][Next]_vars

\* the path run r is working on
PathOf(r) == audioPath(word(r, idx[r]))

\* run r is between the existence check that found no file and its os.Create
AboutToCreate(r) == pc[r] \in {"synth", "createAudio"}

\* run r has created the file and has not finished writing it
Writing(r) == pc[r] = "copy"

\* run q has created a file at the path p
HasCreated(q, p) ==
    \E j \in Entries(q) :
        /\ audioPath(word(q, j)) = p
        /\ log[q][j].tts = 1
        /\ \/ j = idx[q] /\ pc[q] \in {"copy", "emit"}
           \/ Ended(q, j) /\ log[q][j].ttsErr \in {"none", "copy"}

\* C15: nothing of a run interferes with the run itself: a file that appears
\* at its path between the check and the os.Create, or that is complete
\* while the run is still writing it, is the work of another run.
C15_OnlyAnotherRunInterferes ==
    \A r \in active :
        /\ (AboutToCreate(r) /\ store[PathOf(r)] # Absent)
              => \E q \in active \ {r} : HasCreated(q, PathOf(r))
        /\ (Writing(r) /\ store[PathOf(r)] # "truncated")
              => \E q \in active \ {r} : HasCreated(q, PathOf(r))

\* both runs have sent a synthesis request for the same word, and each has
\* created (truncated) the file the other is still writing
C15_Witness ==
    \E r, q \in active :
        /\ r # q
        /\ Writing(r) /\ Writing(q)
        /\ PathOf(r) = PathOf(q)
        /\ log[r][idx[r]].tts = 1 /\ log[q][idx[q]].tts = 1

-----------------------------------------------------------------------------
(* C16 *)

\* the entries of run r whose clip is at the path p
EntriesAt(r, p) == { i \in Entries(r) : audioPath(word(r, i)) = p }

\* run r holds the answer "not found" for the path p, and no check of the
\* run has found a file there
FoundMissing(r, p) ==
    /\ PathOf(r) = p
    /\ pc[r] \in {"createAudio", "copy"}
    /\ stat[r] = "ENOENT"
    /\ \A i \in EntriesAt(r, p) : log[r][i].hit # "present"

\* C16: a step removes no file; it changes a file only at the path the
\* run's existence check answered "not found" for, where no check of the
\* run found a file; and the step after a check that found the file (or
\* failed otherwise) leaves the store as it is.
C16_StoreOnlyGrows ==
    [][/\ \A p \in Paths :
             /\ store[p] # Absent => store'[p] # Absent
             /\ store'[p] # store[p] => \E r \in active : FoundMissing(r, p)
       /\ \A r \in active :
             (pc[r] = "stat" /\ pc'[r] = "emit") => store' = store
       /\ \A r \in active :
             (pc[r] = "emit" /\ log[r][idx[r]].hit = "present") => store' = store]_vars

\* a run has ended in which one entry found its clip in the store and
\* another had its clip created where there was none
C16_Witness ==
    \E r \in active :
        /\ pc[r] = "done"
        /\ \E i, j \in Entries(r) :
              /\ log[r][i].hit = "present" /\ log[r][i].out = "Emitted"
              /\ store[audioPath(word(r, i))] = store0[audioPath(word(r, i))]
              /\ Synthesized(r, j)
              /\ store0[audioPath(word(r, j))] = Absent
              /\ store[audioPath(word(r, j))] = "full"

-----------------------------------------------------------------------------
(* C17 *)

\* the synthesis of entry i was asked for and the entry was carried through
SynthesisSucceeded(r, i) ==
    Ended(r, i) /\ log[r][i].tts = 1 /\ log[r][i].out = "Emitted"

\* entry j is a later occurrence of the word whose first occurrence, entry
\* i, had its clip synthesized; the iteration of j has ended
LaterOccurrence(r, i, j) ==
    /\ i \in Entries(r) /\ j \in Entries(r)
    /\ i < j
    /\ word(r, i) = word(r, j)
    /\ FirstOfItsWord(r, i)
    /\ SynthesisSucceeded(r, i)
    /\ Ended(r, j)

\* entry j found the clip, asked for no synthesis and has its own row
HitWithOwnRow(r, j) ==
    /\ log[r][j].hit = "present"
    /\ log[r][j].tts = 0
    /\ Cardinality(RowsOf(r, j)) = 1

\* no word of run r had more than one synthesis that succeeded
OneSynthesisPerWord(r) ==
    \A i, j \in Entries(r) :
        (word(r, i) = word(r, j) /\ SynthesisSucceeded(r, i) /\ SynthesisSucceeded(r, j))
            => i = j

-----------------------------------------------------------------------------
(* C18 *)

\* the sheet of run r has been read and its entries counted
Counted(r) == pc[r] \notin {"args", "usage", "open"} /\ startup[r] # "input"

====
